---- MODULE Spec2Model ----
(***************************************************************************)
(* Model of Examples/sync_repo.py: the GitRepoSyncer pipeline              *)
(* (ensure_local_repo, setup_git_lfs, sync_to_target), load_config and the *)
(* main driver with its schedule loop.                                     *)
(*                                                                         *)
(* Strings that the code only compares or rewrites by the substrings       *)
(* "https://", "github.com" and "gitcode.com" are sequences of lexemes:    *)
(* "https://github.com/repo.git" is <<"https://", "github.com",            *)
(* "/repo.git">>.  `x in url` is lexeme membership and str.replace         *)
(* rewrites every occurrence of the lexeme.                                *)
(***************************************************************************)
EXTENDS Integers, Sequences, FiniteSets, TLC

VARIABLES
    pc,           \* position of the process in main() / sync()
    env,          \* environment variables the process was started with
    config,       \* dict returned by load_config, NoConfig before
    ws,           \* what local_repo_path holds on disk
    remotes,      \* remote entries of the repository at local_repo_path
    remotes_before, \* the remote entries when the run's sync_to_target began
    run_kind,     \* "initial" (main line 183) or "tick" (schedule job)
    steps,        \* steps attempted in the current run, with the error each raised
    run_ops,      \* git engine calls issued in the current run
    run_result,   \* "idle", "running", "ok", "failed"
    raised,       \* the exception sync() re-raised in the current run
    run_log,      \* push error summaries logged in the current run
    lfs_outcome,  \* what setup_git_lfs met in the current run
    push_result,  \* list of per-ref results the last push returned
    timer,        \* TRUE once schedule.every(..).do(..) has been called
    git_called,   \* TRUE once this process issued any git operation
    exit_code,    \* process exit status, -1 while running
    exit_cause,   \* why the process ended
    ensure_log,   \* the last MaxHist calls of ensure_local_repo
    repo_url,     \* argument of a direct get_authenticated_url call
    token,        \* argument of a direct get_authenticated_url call
    auth_url,     \* its result
    auth_called   \* TRUE once the direct call returned

vars == <<pc, env, config, ws, remotes, remotes_before, run_kind, steps, run_ops, run_result,
          raised, run_log, lfs_outcome, push_result, timer, git_called,
          exit_code, exit_cause, ensure_log, repo_url, token, auth_url,
          auth_called>>

procVars == <<pc, env, config, ws, remotes, remotes_before, run_kind, steps, run_ops,
              run_result, raised, run_log, lfs_outcome, push_result, timer,
              git_called, exit_code, exit_cause, ensure_log>>

urlVars == <<repo_url, token, auth_url, auth_called>>

-----------------------------------------------------------------------------
(* Bounds *)

MaxRefs == 2      \* longest per-ref push result list
MaxHist == 2      \* ensure_local_repo calls remembered
MaxUrlLen == 5    \* longest URL, in lexemes, of a direct call

-----------------------------------------------------------------------------
(* Values *)

Unset == "<unset>"            \* os.getenv returns None

HTTPS == "https://"
GITHUB == "github.com"
GITCODE == "gitcode.com"

Schemes == {HTTPS, "http://"}
Hosts == {GITHUB, GITCODE, "example.com"}
Lexemes == Schemes \cup Hosts \cup {"/"}

DefaultSourceUrl == <<HTTPS, GITCODE, "/Ascend/MindSpeed.git">>
DefaultTargetUrl == <<HTTPS, GITHUB, "/verylucky01/MindSpeed.git">>

EnvTokens == {Unset, "", "tokA", "tokB"}
EnvTargetUrls == {<<Unset>>, <<HTTPS, "example.com", "/mirror.git">>}
EnvIntervals == {Unset, "abc"}

NoConfig == [target_repo_url |-> <<>>, target_repo_token |-> Unset,
             source_repo_url |-> <<>>, sync_interval |-> 0]

NoError == [type |-> "none", command |-> "", status |-> ""]

GitCommandError(cmd, status) ==
    [type |-> "GitCommandError", command |-> cmd, status |-> status]

InvalidGitRepositoryError(msg) ==
    [type |-> "InvalidGitRepositoryError", command |-> "", status |-> msg]

OtherError(t) == [type |-> t, command |-> "", status |-> ""]

\* PushInfo: flags is the bit set, summary the engine's message for the ref
PushInfos ==
    { [flags |-> {"FAST_FORWARD"}, summary |-> "ok"],
      [flags |-> {"REJECTED", "ERROR"}, summary |-> "non-fast-forward"],
      [flags |-> {"REMOTE_REJECTED", "ERROR"}, summary |-> "hook declined"] }

PushResults == UNION { [1..n -> PushInfos] : n \in 0..MaxRefs }

-----------------------------------------------------------------------------
(* get_authenticated_url *)

Contains(url, marker) == \E i \in 1..Len(url) : url[i] = marker

RECURSIVE Replace(_, _, _)
Replace(url, old, new) ==
    IF url = <<>> THEN <<>>
    ELSE IF Head(url) = old THEN new \o Replace(Tail(url), old, new)
    ELSE <<Head(url)>> \o Replace(Tail(url), old, new)

get_authenticated_url(url, tok) ==
    IF Contains(url, GITHUB)
    THEN Replace(url, HTTPS, <<HTTPS, tok, ":x-oauth-basic@">>)
    ELSE IF Contains(url, GITCODE)
    THEN Replace(url, HTTPS, <<HTTPS, "oauth2:", tok, "@">>)
    ELSE url

-----------------------------------------------------------------------------
(* load_config *)

GetEnvUrl(value, default) == IF value = <<Unset>> THEN default ELSE value

GetEnv(value, default) == IF value = Unset THEN default ELSE value

\* int(): the string must be a decimal literal
IntRaises(str) == str \notin {"60"}

TokenMissingMut(tok) == tok = Unset

\* `not config["target_repo_token"]`: None and "" are both falsy
TokenMissing(tok) == tok = Unset \/ tok = ""

\* the exception load_config raises for environment e, NoError if it returns
load_config_error(e) ==
    IF IntRaises(GetEnv(e.interval, "60")) THEN OtherError("ValueError")
    ELSE IF TokenMissing(e.token) THEN OtherError("ValueError")
    ELSE NoError

load_config(e) ==
    [source_repo_url |-> DefaultSourceUrl,
     target_repo_url |-> GetEnvUrl(e.url, DefaultTargetUrl),
     target_repo_token |-> e.token,
     sync_interval |-> 60]

-----------------------------------------------------------------------------
(* Exceptions leaving sync() and main() *)

\* sync(): steps in the order the body calls them
SyncStepsMut == <<"ensure_local_repo", "sync_to_target", "setup_git_lfs">>

SyncSteps == <<"ensure_local_repo", "setup_git_lfs", "sync_to_target">>

StepIndex(name) == CHOOSE i \in 1..Len(SyncSteps) : SyncSteps[i] = name

\* where the process continues once sync() has returned normally
AfterRun(kind) == IF kind = "initial" THEN "install" ELSE "loop"

\* the statement after step `name` returned normally
AfterStep(name, kind) ==
    IF StepIndex(name) < Len(SyncSteps)
    THEN SyncSteps[StepIndex(name) + 1]
    ELSE AfterRun(kind)

\* main(): `except Exception` logs and calls sys.exit(1);
\* `except KeyboardInterrupt` logs and returns
MainExitCode(err) == IF err.type = "KeyboardInterrupt" THEN 0 ELSE 1

\* A step of sync() finished raising err (NoError: it returned).  An
\* exception is logged and re-raised by sync(), passes through
\* schedule.run_pending() for a tick, and reaches main()'s handler.
StepDone(name, err, cause) ==
    /\ steps' = Append(steps, [name |-> name, err |-> err])
    /\ IF err = NoError
       THEN /\ pc' = AfterStep(name, run_kind)
            /\ run_result' = IF StepIndex(name) = Len(SyncSteps)
                             THEN "ok" ELSE run_result
            /\ raised' = raised
            /\ exit_code' = exit_code
            /\ exit_cause' = exit_cause
       ELSE /\ pc' = "exited"
            /\ run_result' = "failed"
            /\ raised' = err
            /\ exit_code' = MainExitCode(err)
            /\ exit_cause' = cause

BeginRun(kind) ==
    /\ run_kind' = kind
    /\ steps' = <<>>
    /\ run_ops' = <<>>
    /\ run_result' = "running"
    /\ raised' = NoError
    /\ run_log' = {}
    /\ lfs_outcome' = "none"
    /\ push_result' = [returned |-> FALSE, refs |-> <<>>]
    /\ remotes_before' = <<>>

-----------------------------------------------------------------------------
(* ensure_local_repo *)

HasRemote(rs, name) == \E i \in 1..Len(rs) : rs[i].name = name

Remember(log, rec) ==
    IF Len(log) < MaxHist THEN Append(log, rec) ELSE Append(Tail(log), rec)

PathMissingMut(w) == w # "repo"

\* `not os.path.exists(local_path)`
PathMissing(w) == w = "absent"

\* One call of ensure_local_repo on workspace w with remotes rs.  net_ok is
\* whether the transport serves the clone or pull, leftover whether a failed
\* clone leaves a directory behind.  The result names the git calls made,
\* the workspace afterwards and the exception raised.
ensure_local_repo(w, rs, source, net_ok, leftover) ==
    IF PathMissing(w)
    THEN \* Repo.clone_from; git refuses a destination that already exists
         IF w = "absent" /\ net_ok
         THEN [ops |-> <<"clone">>, ws |-> "repo",
               remotes |-> <<[name |-> "origin", url |-> source]>>,
               err |-> NoError]
         ELSE [ops |-> <<"clone">>,
               ws |-> IF w = "absent" /\ leftover THEN "notrepo" ELSE w,
               remotes |-> rs,
               err |-> GitCommandError("clone", "engine")]
    ELSE IF w \in {"absent", "notrepo"}
    THEN \* Repo(local_path) raises on a path that is no repository
         [ops |-> <<"open">>, ws |-> w, remotes |-> rs,
          err |-> InvalidGitRepositoryError(w)]
    ELSE IF w = "bare"
    THEN [ops |-> <<"open">>, ws |-> w, remotes |-> rs,
          err |-> InvalidGitRepositoryError("invalid repository")]
    ELSE IF ~HasRemote(rs, "origin")
    THEN \* repo.remotes.origin: no such attribute
         [ops |-> <<"open">>, ws |-> w, remotes |-> rs,
          err |-> OtherError("AttributeError")]
    ELSE [ops |-> <<"open", "pull">>, ws |-> w, remotes |-> rs,
          err |-> IF net_ok THEN NoError
                  ELSE GitCommandError("pull", "engine")]

EnsureLocalRepo ==
    /\ pc = "ensure_local_repo"
    /\ \E net_ok \in BOOLEAN, leftover \in BOOLEAN :
         LET r == ensure_local_repo(ws, remotes, config.source_repo_url,
                                    net_ok, leftover)
             rec == [ws |-> ws, origin |-> HasRemote(remotes, "origin"),
                     ops |-> r.ops]
         IN /\ ws' = r.ws
            /\ remotes' = r.remotes
            /\ run_ops' = run_ops \o r.ops
            /\ ensure_log' = Remember(ensure_log, rec)
            /\ git_called' = TRUE
            /\ StepDone("ensure_local_repo", r.err, "run")
    /\ UNCHANGED <<env, config, run_kind, run_log, lfs_outcome, push_result,
                   timer, remotes_before>>
    /\ UNCHANGED urlVars

-----------------------------------------------------------------------------
(* setup_git_lfs *)

LfsCatchesMut(err) == err.type = "GitCommandError"

\* `except Exception`: every error of the body is caught
LfsCatches(err) == err.type \notin {"KeyboardInterrupt", "SystemExit"}

LfsErrors == {NoError, GitCommandError("lfs", "engine"), OtherError("OSError")}

\* probe is the status of os.system("git lfs version"), init_err what
\* repo.git.lfs("install", "--local") raises
setup_git_lfs(probe, init_err) ==
    IF probe # 0
    THEN [ops |-> <<>>, outcome |-> "unavailable", err |-> NoError]
    ELSE IF init_err = NoError
    THEN [ops |-> <<"lfs_install">>, outcome |-> "installed", err |-> NoError]
    ELSE [ops |-> <<"lfs_install">>, outcome |-> "init_error",
          err |-> IF LfsCatches(init_err) THEN NoError ELSE init_err]

SetupGitLfs ==
    /\ pc = "setup_git_lfs"
    /\ \E probe \in {0, 256}, init_err \in LfsErrors :
         LET r == setup_git_lfs(probe, init_err)
         IN /\ run_ops' = run_ops \o r.ops
            /\ lfs_outcome' = r.outcome
            /\ StepDone("setup_git_lfs", r.err, "run")
    /\ git_called' = TRUE
    /\ UNCHANGED <<env, config, ws, remotes, remotes_before, run_kind, run_log,
                   push_result, timer, ensure_log>>
    /\ UNCHANGED urlVars

-----------------------------------------------------------------------------
(* sync_to_target *)

TargetRemoteName == "target"

TargetConfiguredMut(rs) == FALSE

\* `target_remote_name in [remote.name for remote in repo.remotes]`
TargetConfigured(rs) == HasRemote(rs, TargetRemoteName)

\* Remote.set_url: rewrites the url of the named entry
set_url(rs, name, url) ==
    [i \in 1..Len(rs) |->
        IF rs[i].name = name THEN [name |-> name, url |-> url] ELSE rs[i]]

\* Repo.create_remote: git refuses a name that is already configured
create_remote_error(rs, name) ==
    IF HasRemote(rs, name)
    THEN GitCommandError("remote add", "remote already exists")
    ELSE NoError

create_remote(rs, name, url) == Append(rs, [name |-> name, url |-> url])

\* `result.flags & result.ERROR`
HasErrorFlag(info) == "ERROR" \in info.flags

PushFailedAllMut(result) ==
    /\ Len(result) > 0
    /\ \A i \in 1..Len(result) : HasErrorFlag(result[i])

PushFailedEmptyMut(result) ==
    \/ Len(result) = 0
    \/ \E i \in 1..Len(result) : HasErrorFlag(result[i])

\* `push_result and any(result.flags & result.ERROR for result in push_result)`
PushFailed(result) ==
    /\ Len(result) > 0
    /\ \E i \in 1..Len(result) : HasErrorFlag(result[i])

\* summaries written by the logger.error loop over the failing refs
LoggedSummaries(result) ==
    { result[i].summary : i \in { j \in 1..Len(result) : HasErrorFlag(result[j]) } }

\* the exception of `raise GitCommandError("push", ...)`; its status is the
\* fixed text the code passes (rendered here in ASCII)
PushRejectedError == GitCommandError("push", "push failed")

\* One call of sync_to_target.  push_raises: the engine's push itself raised
\* GitCommandError; otherwise result is the list it returned.
sync_to_target(rs, cfg, push_raises, result) ==
    LET target_url == get_authenticated_url(cfg.target_repo_url,
                                            cfg.target_repo_token)
        exists == TargetConfigured(rs)
        cfg_err == IF exists THEN NoError
                   ELSE create_remote_error(rs, TargetRemoteName)
        rs2 == IF exists THEN set_url(rs, TargetRemoteName, target_url)
               ELSE IF cfg_err = NoError
               THEN create_remote(rs, TargetRemoteName, target_url)
               ELSE rs
        cfg_op == IF exists THEN "set_url" ELSE "create_remote"
    IN IF cfg_err # NoError
       THEN [ops |-> <<cfg_op>>, remotes |-> rs2, pushed |-> FALSE,
             result |-> <<>>, log |-> {}, err |-> cfg_err]
       ELSE IF push_raises
       THEN [ops |-> <<cfg_op, "push">>, remotes |-> rs2, pushed |-> FALSE,
             result |-> <<>>, log |-> {},
             err |-> GitCommandError("push", "engine")]
       ELSE IF PushFailed(result)
       THEN [ops |-> <<cfg_op, "push">>, remotes |-> rs2, pushed |-> TRUE,
             result |-> result, log |-> LoggedSummaries(result),
             err |-> PushRejectedError]
       ELSE [ops |-> <<cfg_op, "push">>, remotes |-> rs2, pushed |-> TRUE,
             result |-> result, log |-> {}, err |-> NoError]

SyncToTarget ==
    /\ pc = "sync_to_target"
    /\ \E push_raises \in BOOLEAN, result \in PushResults :
         LET r == sync_to_target(remotes, config, push_raises, result)
         IN /\ remotes' = r.remotes
            /\ remotes_before' = remotes
            /\ run_ops' = run_ops \o r.ops
            /\ run_log' = r.log
            /\ push_result' = [returned |-> r.pushed, refs |-> r.result]
            /\ StepDone("sync_to_target", r.err, "run")
    /\ git_called' = TRUE
    /\ UNCHANGED <<env, config, ws, run_kind, lfs_outcome, timer, ensure_log>>
    /\ UNCHANGED urlVars

-----------------------------------------------------------------------------
(* main *)

NoPush == [returned |-> FALSE, refs |-> <<>>]

Envs == [token : EnvTokens, url : EnvTargetUrls, interval : EnvIntervals]

\* main(), lines 179-183: load_config, construct the syncer, start the
\* initial run; an exception of load_config ends the process
MainLoadConfig ==
    /\ pc = "boot"
    /\ IF load_config_error(env) # NoError
       THEN /\ pc' = "exited"
            /\ exit_code' = MainExitCode(load_config_error(env))
            /\ exit_cause' = "config"
            /\ UNCHANGED <<config, run_kind, steps, run_ops, run_result,
                           raised, run_log, lfs_outcome, push_result,
                           remotes_before>>
       ELSE /\ config' = load_config(env)
            /\ pc' = SyncSteps[1]
            /\ BeginRun("initial")
            /\ UNCHANGED <<exit_code, exit_cause>>
    /\ UNCHANGED <<env, ws, remotes, timer, git_called, ensure_log>>
    /\ UNCHANGED urlVars

\* config.get("enable_schedule", True): load_config never sets the key
EnableSchedule(cfg) == TRUE

\* main(), lines 186-191
MainInstallSchedule ==
    /\ pc = "install"
    /\ IF EnableSchedule(config)
       THEN /\ timer' = TRUE
            /\ pc' = "loop"
            /\ UNCHANGED <<exit_code, exit_cause>>
       ELSE /\ timer' = timer
            /\ pc' = "exited"
            /\ exit_code' = 0
            /\ exit_cause' = "return"
    /\ UNCHANGED <<env, config, ws, remotes, remotes_before, run_kind, steps,
                   run_ops, run_result, raised, run_log, lfs_outcome,
                   push_result, git_called, ensure_log>>
    /\ UNCHANGED urlVars

\* main(), lines 194-196: an iteration of the loop in which the job is due
\* starts a run of syncer.sync; an iteration in which it is not due sleeps
\* and changes nothing
RunPending ==
    /\ pc = "loop"
    /\ timer
    /\ pc' = SyncSteps[1]
    /\ BeginRun("tick")
    /\ UNCHANGED <<env, config, ws, remotes, timer, git_called, exit_code,
                   exit_cause, ensure_log>>
    /\ UNCHANGED urlVars

\* Ctrl-C while main() runs: `except KeyboardInterrupt` logs and returns
KeyboardInterrupt ==
    /\ pc \notin {"boot", "exited"}
    /\ pc' = "exited"
    /\ exit_code' = MainExitCode(OtherError("KeyboardInterrupt"))
    /\ exit_cause' = "interrupt"
    /\ UNCHANGED <<env, config, ws, remotes, remotes_before, run_kind, steps,
                   run_ops, run_result, raised, run_log, lfs_outcome,
                   push_result, timer, git_called, ensure_log>>
    /\ UNCHANGED urlVars

\* the script is started again, with a possibly different environment, on
\* the workspace the previous process left on disk
ProcessRestart ==
    /\ pc = "exited"
    /\ pc' = "boot"
    /\ env' \in Envs
    /\ config' = NoConfig
    /\ run_kind' = "initial"
    /\ steps' = <<>>
    /\ run_ops' = <<>>
    /\ run_result' = "idle"
    /\ raised' = NoError
    /\ run_log' = {}
    /\ lfs_outcome' = "none"
    /\ push_result' = NoPush
    /\ remotes_before' = <<>>
    /\ timer' = FALSE
    /\ git_called' = FALSE
    /\ exit_code' = -1
    /\ exit_cause' = "none"
    /\ UNCHANGED <<ws, remotes, ensure_log>>
    /\ UNCHANGED urlVars

InitWorkspaces ==
    { [ws |-> "absent", remotes |-> <<>>],
      [ws |-> "notrepo", remotes |-> <<>>],
      [ws |-> "bare", remotes |-> <<[name |-> "origin", url |-> DefaultSourceUrl]>>],
      [ws |-> "repo", remotes |-> <<>>],
      [ws |-> "repo", remotes |-> <<[name |-> "origin", url |-> DefaultSourceUrl]>>] }

Init ==
    /\ pc = "boot"
    /\ env \in Envs
    /\ config = NoConfig
    /\ \E w \in InitWorkspaces : ws = w.ws /\ remotes = w.remotes
    /\ run_kind = "initial"
    /\ steps = <<>>
    /\ run_ops = <<>>
    /\ run_result = "idle"
    /\ raised = NoError
    /\ run_log = {}
    /\ lfs_outcome = "none"
    /\ push_result = NoPush
    /\ remotes_before = <<>>
    /\ timer = FALSE
    /\ git_called = FALSE
    /\ exit_code = -1
    /\ exit_cause = "none"
    /\ ensure_log = <<>>
    /\ repo_url = <<>>
    /\ token = ""
    /\ auth_url = <<>>
    /\ auth_called = FALSE

Next ==
    \/ MainLoadConfig
    \/ EnsureLocalRepo
    \/ SetupGitLfs
    \/ SyncToTarget
    \/ MainInstallSchedule
    \/ RunPending
    \/ KeyboardInterrupt
    \/ ProcessRestart

Spec == Init /\ [][Next]_vars

-----------------------------------------------------------------------------
(* Direct calls of get_authenticated_url on arbitrary URLs *)

\* https scheme, host, "/", then any lexemes as path and query
Urls ==
    { u \in UNION { [1..n -> Lexemes] : n \in 2..MaxUrlLen } :
        /\ u[1] = HTTPS
        /\ u[2] \in Hosts
        /\ Len(u) >= 3 => u[3] = "/" }

Tokens == {"tokA", "tokB"}

UrlInit ==
    /\ pc = "boot"
    /\ env = [token |-> Unset, url |-> <<Unset>>, interval |-> Unset]
    /\ config = NoConfig
    /\ ws = "absent"
    /\ remotes = <<>>
    /\ run_kind = "initial"
    /\ steps = <<>>
    /\ run_ops = <<>>
    /\ run_result = "idle"
    /\ raised = NoError
    /\ run_log = {}
    /\ lfs_outcome = "none"
    /\ push_result = NoPush
    /\ remotes_before = <<>>
    /\ timer = FALSE
    /\ git_called = FALSE
    /\ exit_code = -1
    /\ exit_cause = "none"
    /\ ensure_log = <<>>
    /\ repo_url \in Urls
    /\ token \in Tokens
    /\ auth_url = <<>>
    /\ auth_called = FALSE

GetAuthenticatedUrl ==
    /\ ~auth_called
    /\ auth_url' = get_authenticated_url(repo_url, token)
    /\ auth_called' = TRUE
    /\ UNCHANGED <<repo_url, token>>
    /\ UNCHANGED procVars

UrlNext == GetAuthenticatedUrl

UrlSpec == UrlInit /\ [][UrlNext]_vars

-----------------------------------------------------------------------------
(* Properties *)

Range(seq) == { seq[i] : i \in 1..Len(seq) }

IsPrefix(a, b) == Len(a) <= Len(b) /\ \A i \in 1..Len(a) : a[i] = b[i]

StepNames == [i \in 1..Len(steps) |-> steps[i].name]

Attempted(name) == \E i \in 1..Len(steps) : steps[i].name = name

\* the error the named step raised in the current run
StepErr(name) ==
    IF Attempted(name)
    THEN steps[CHOOSE i \in 1..Len(steps) : steps[i].name = name].err
    ELSE NoError

AnyRefFailed == \E i \in 1..Len(push_result.refs) : "ERROR" \in push_result.refs[i].flags

TargetEntries == { i \in 1..Len(remotes) : remotes[i].name = "target" }

\* C1: a run that fails with a workspace or publish error is caught at the
\* driver boundary: the process does not exit on it, so that the next tick
\* can start a new run; only a configuration failure at startup ends it.
C1_RunFailureKeepsProcessRunning ==
    (run_result = "failed"
        /\ raised.type \in {"GitCommandError", "InvalidGitRepositoryError"}) =>
            /\ pc # "exited"
            /\ exit_code = -1

\* C2: within a run the steps are attempted in the order ensure_local_repo,
\* setup_git_lfs, sync_to_target, each at most once; a failure of
\* ensure_local_repo leaves the other two unattempted, with no remote
\* configured and no push issued; a failure of sync_to_target fails the run.
C2_StepsInOrder ==
    /\ IsPrefix(StepNames,
                <<"ensure_local_repo", "setup_git_lfs", "sync_to_target">>)
    /\ StepErr("ensure_local_repo") # NoError =>
          /\ Len(steps) = 1
          /\ run_result = "failed"
          /\ Range(run_ops) \cap {"lfs_install", "set_url", "create_remote", "push"} = {}
    /\ StepErr("sync_to_target") # NoError => run_result = "failed"

C2_Witness ==
    /\ Len(steps) = 3
    /\ StepErr("sync_to_target") # NoError
    /\ run_result = "failed"

\* C3: setup_git_lfs never raises, whatever the probe reports and whatever
\* the local initialisation raises; the run goes on to sync_to_target and
\* succeeds whenever sync_to_target succeeds.
C3_LfsNeverFailsRun ==
    /\ StepErr("setup_git_lfs") = NoError
    /\ (lfs_outcome # "none" /\ Len(steps) = 2 /\ pc # "exited") =>
          pc = "sync_to_target"
    /\ (lfs_outcome # "none" /\ Attempted("sync_to_target")
          /\ StepErr("sync_to_target") = NoError) => run_result = "ok"

C3_Witness ==
    /\ lfs_outcome = "init_error"
    /\ Attempted("sync_to_target")
    /\ run_result = "ok"

\* C4: when the push returned a non-empty list of per-ref results,
\* sync_to_target raises exactly when some ref carries the error flag, and
\* then the run is failed, also when other refs are ok.
C4_PushFailsIffAnyRefError ==
    (push_result.returned /\ Len(push_result.refs) > 0) =>
        /\ (StepErr("sync_to_target") # NoError) <=> AnyRefFailed
        /\ AnyRefFailed => run_result = "failed"

C4_Witness ==
    /\ push_result.returned
    /\ AnyRefFailed
    /\ \E i \in 1..Len(push_result.refs) : "ERROR" \notin push_result.refs[i].flags
    /\ run_result = "failed"

\* C5: the error sync_to_target raises for a rejected push carries the
\* message of every failing ref in its details.
C5_ErrorCarriesRefMessages ==
    (push_result.returned /\ AnyRefFailed) =>
        \A i \in 1..Len(push_result.refs) :
            "ERROR" \in push_result.refs[i].flags =>
                push_result.refs[i].summary \in {raised.command, raised.status}

\* C6: every call of ensure_local_repo clones exactly when local_repo_path
\* did not exist, and on a valid repository with an origin remote it pulls
\* and does not clone.
C6_CloneIfAbsentElsePull ==
    \A i \in 1..Len(ensure_log) :
        /\ ("clone" \in Range(ensure_log[i].ops)) <=> (ensure_log[i].ws = "absent")
        /\ (ensure_log[i].ws = "repo" /\ ensure_log[i].origin) =>
              /\ "pull" \in Range(ensure_log[i].ops)
              /\ "clone" \notin Range(ensure_log[i].ops)

C6_Witness ==
    /\ Len(ensure_log) >= 2
    /\ \A i \in {Len(ensure_log) - 1, Len(ensure_log)} :
          /\ ensure_log[i].ws = "repo"
          /\ ensure_log[i].origin
          /\ "pull" \in Range(ensure_log[i].ops)

\* C7: once sync_to_target has run, the repository has exactly one remote
\* named "target", its URL is the authenticated URL of the token of that
\* call, and the call did not fail on an already existing remote.
C7_TargetRemoteTracksToken ==
    Attempted("sync_to_target") =>
        /\ Cardinality(TargetEntries) = 1
        /\ \A i \in TargetEntries :
              remotes[i].url = get_authenticated_url(config.target_repo_url,
                                                     config.target_repo_token)
        /\ StepErr("sync_to_target").status # "remote already exists"

C7_Witness ==
    /\ Attempted("sync_to_target")
    /\ "set_url" \in Range(run_ops)
    /\ \E i \in 1..Len(remotes_before), j \in TargetEntries :
          /\ remotes_before[i].name = "target"
          /\ remotes_before[i].url # remotes[j].url
          /\ config.target_repo_token \in Range(remotes[j].url)

\* C8: with TARGET_REPO_TOKEN unset or empty the process exits with code 1
\* at load_config, having issued no git operation and installed no timer.
C8_MissingTokenExitsBeforeGit ==
    (env.token \in {Unset, ""} /\ pc # "boot") =>
        /\ pc = "exited"
        /\ exit_code = 1
        /\ exit_cause = "config"
        /\ ~git_called
        /\ ~timer
        /\ steps = <<>>
        /\ run_ops = <<>>

C8_Witness ==
    /\ env.token = ""
    /\ env.interval = Unset
    /\ pc = "exited"
    /\ exit_code = 1

\* the mapping keyed on the host of the URL: credentials right after the
\* scheme for a recognised host, the URL itself otherwise
HostKeyedAuthUrl(url, tok) ==
    IF url[2] = GITHUB
    THEN <<url[1], tok, ":x-oauth-basic@">> \o Tail(url)
    ELSE IF url[2] = GITCODE
    THEN <<url[1], "oauth2:", tok, "@">> \o Tail(url)
    ELSE url

\* C9: for every URL and token get_authenticated_url equals the mapping
\* keyed on the host of the URL.
C9_AuthUrlKeyedOnHost ==
    auth_called => auth_url = HostKeyedAuthUrl(repo_url, token)

\* C10: an empty list of per-ref results is a success: sync_to_target does
\* not raise and the run ends ok, as for a list with no error flag.
C10_EmptyPushResultSucceeds ==
    (push_result.returned /\ ~AnyRefFailed) =>
        /\ StepErr("sync_to_target") = NoError
        /\ run_result = "ok"
        /\ run_log = {}

C10_Witness ==
    /\ push_result.returned
    /\ push_result.refs = <<>>
    /\ run_result = "ok"

====
